---------------------------- MODULE Spec2Model ----------------------------
(***************************************************************************)
(* A model of crypto_bot.py: the menu-navigation handlers (start,          *)
(* button_click and the show_* renderers) and the retrying request helper  *)
(* make_api_request.                                                       *)
(*                                                                         *)
(* Conventions.                                                            *)
(*  - A Python str that the code parses or builds from data is a sequence  *)
(*    of one-character strings (<<"u","s","d">> is 'usd'); the literal     *)
(*    message texts of the code are TLA+ strings.                          *)
(*  - Python objects whose type the code cannot know in advance are        *)
(*    tagged records: None, PyStr(chars), PyList(seq), PyDict(fn), PyInt(n). *)
(*  - An f-string is Txt(format, args): the literal format of the source   *)
(*    and the values interpolated into it, in order.                       *)
(*  - A JSON number is identified with the text str() gives for it, which  *)
(*    is what an f-string interpolates.                                    *)
(***************************************************************************)
EXTENDS Integers, Sequences, FiniteSets, TLC

VARIABLES
    state,      \* state[c]: the last conversation state a handler returned for c
    user,       \* user[c]: the user who writes in conversation c (a chat)
    user_data,  \* user_data[w]: context.user_data, the dict kept for user w
    pc,         \* the one event loop: "idle", or inside make_api_request ("request"),
                \* or back in the handler with its answer ("returned")
    cur,        \* the update being handled (or last handled): [conv, kind, data]
    call,       \* the make_api_request call in progress: [fn, url, params]
    hist,       \* outcomes of the attempts of the current make_api_request call
    result,     \* what make_api_request returned to the handler
    out,        \* what the handler of cur has sent to the transport, in order
    fetches,    \* the get_* calls the handler of cur has made, in order
    ret,        \* what the handler of cur returned
    raised      \* the handler of cur ended with an exception nobody caught

vars == <<state, user, user_data, pc, cur, call, hist, result, out, fetches, ret, raised>>

----------------------------------------------------------------------------
(* Bounds of the model.                                                    *)

\* the longest asset list a list endpoint answers with, in the rendering
\* specification and in the conversation specification
MaxList == 4
MaxConvList == 2

\* how many of the supported currencies the user picks from
MaxCurrencies == 2

----------------------------------------------------------------------------
(* Python values.                                                          *)

None == [t |-> "None"]
PyStr(s) == [t |-> "str", v |-> s]
PyList(s) == [t |-> "list", v |-> s]
PyDict(f) == [t |-> "dict", v |-> f]
PyInt(n) == [t |-> "int", v |-> n]

EmptyDict == [k \in {} |-> None]

\* dict.get(key, default)
Get(d, key, default) == IF key \in DOMAIN d THEN d[key] ELSE default

IsNone(x) == x.t = "None"

\* bool(x) for the values the handlers test: None, '', {} and [] are false
Truthy(x) ==
    CASE x.t = "None" -> FALSE
      [] x.t = "str" -> x.v # <<>>
      [] x.t = "dict" -> DOMAIN x.v # {}
      [] x.t = "list" -> x.v # <<>>
      [] OTHER -> TRUE

\* an f-string: its literal format and the interpolated values
Txt(fmt, args) == [fmt |-> fmt, args |-> args]

\* a literal text of the source
Lit(text) == Txt(text, <<>>)

----------------------------------------------------------------------------
(* Python str operations on sequences of characters.                       *)

LowerCase == <<"a","b","c","d","e","f","g","h","i","j","k","l","m",
               "n","o","p","q","r","s","t","u","v","w","x","y","z">>
UpperCase == <<"A","B","C","D","E","F","G","H","I","J","K","L","M",
               "N","O","P","Q","R","S","T","U","V","W","X","Y","Z">>

UpperChar(ch) ==
    IF \E i \in 1..Len(LowerCase) : LowerCase[i] = ch
    THEN UpperCase[CHOOSE i \in 1..Len(LowerCase) : LowerCase[i] = ch]
    ELSE ch

LowerChar(ch) ==
    IF \E i \in 1..Len(UpperCase) : UpperCase[i] = ch
    THEN LowerCase[CHOOSE i \in 1..Len(UpperCase) : UpperCase[i] = ch]
    ELSE ch

\* str.upper()
Upper(s) == [i \in 1..Len(s) |-> UpperChar(s[i])]

\* str.capitalize(): first character upper-cased, the rest lower-cased
Capitalize(s) == [i \in 1..Len(s) |-> IF i = 1 THEN UpperChar(s[i]) ELSE LowerChar(s[i])]

\* str.startswith(prefix)
StartsWith(s, prefix) ==
    /\ Len(s) >= Len(prefix)
    /\ SubSeq(s, 1, Len(prefix)) = prefix

\* str.split(sep) for a one-character separator: the list of parts
RECURSIVE SplitFrom(_, _, _)
SplitFrom(s, sep, part) ==
    IF s = <<>> THEN <<part>>
    ELSE IF Head(s) = sep THEN <<part>> \o SplitFrom(Tail(s), sep, <<>>)
    ELSE SplitFrom(Tail(s), sep, Append(part, Head(s)))

Split(s, sep) == SplitFrom(s, sep, <<>>)

----------------------------------------------------------------------------
(* Literals of the source.                                                 *)

MAIN_MENU == 0
CHOOSING_CRYPTO == 1
CHOOSING_CURRENCY == 2
TYPING_SEARCH == 3
COMPARE_SELECTION == 4

States == {MAIN_MENU, CHOOSING_CRYPTO, CHOOSING_CURRENCY, TYPING_SEARCH, COMPARE_SELECTION}

s_usd == <<"u","s","d">>
s_eur == <<"e","u","r">>
s_gbp == <<"g","b","p">>
s_jpy == <<"j","p","y">>
s_aud == <<"a","u","d">>
s_cad == <<"c","a","d">>
s_chf == <<"c","h","f">>
s_cny == <<"c","n","y">>
s_inr == <<"i","n","r">>

SUPPORTED_CURRENCIES == <<s_usd, s_eur, s_gbp, s_jpy, s_aud, s_cad, s_chf, s_cny, s_inr>>

\* the callback payloads the code compares query.data with
s_main_menu == <<"m","a","i","n","_","m","e","n","u">>
s_top100 == <<"t","o","p","1","0","0">>
s_quit == <<"q","u","i","t">>
s_trending == <<"t","r","e","n","d","i","n","g">>
s_search == <<"s","e","a","r","c","h">>
s_compare_selection == <<"c","o","m","p","a","r","e","_","s","e","l","e","c","t","i","o","n">>
s_crypto_prefix == <<"c","r","y","p","t","o",":">>
s_currency_prefix == <<"c","u","r","r","e","n","c","y",":">>

s_bitcoin == <<"b","i","t","c","o","i","n">>
s_Unknown == <<"U","n","k","n","o","w","n">>
s_unknown == <<"u","n","k","n","o","w","n">>
s_NA == <<"N","/","A">>

s_24h_change == <<"_","2","4","h","_","c","h","a","n","g","e">>
s_market_cap == <<"_","m","a","r","k","e","t","_","c","a","p">>
s_24h_vol == <<"_","2","4","h","_","v","o","l">>


----------------------------------------------------------------------------
(* The transport: what a handler sends.                                    *)

InlineKeyboardButton(text, callback_data) == [text |-> text, callback_data |-> callback_data]
InlineKeyboardMarkup(keyboard) == [inline_keyboard |-> keyboard]

\* query.edit_message_text(text, reply_markup) / message.reply_text(text, reply_markup)
EditMessageText(text, reply_markup) ==
    [op |-> "edit_message_text", text |-> text, reply_markup |-> reply_markup]
ReplyText(text, reply_markup) ==
    [op |-> "reply_text", text |-> text, reply_markup |-> reply_markup]

\* what a show_* coroutine did: the messages it sent and whether it raised
Sent(msgs) == [out |-> msgs, raised |-> FALSE]
Raise(msgs) == [out |-> msgs, raised |-> TRUE]

----------------------------------------------------------------------------
(* Python list operations.                                                 *)

\* list(range(start, stop, step)) for step > 0
RECURSIVE Range(_, _, _)
Range(start, stop, step) ==
    IF start >= stop THEN <<>> ELSE <<start>> \o Range(start + step, stop, step)

\* s[i:j] for 0 <= i <= j (0-based, j exclusive, clipped to the list)
Slice(s, i, j) == SubSeq(s, i + 1, IF j > Len(s) THEN Len(s) ELSE j)

----------------------------------------------------------------------------
(* The renderers.                                                          *)

main_menu_keyboard ==
    << <<InlineKeyboardButton(Lit("Top 100 Cryptocurrencies"), s_top100)>>,
       <<InlineKeyboardButton(Lit("Trending Cryptocurrencies"), s_trending)>>,
       <<InlineKeyboardButton(Lit("Search Cryptocurrency"), s_search)>>,
       <<InlineKeyboardButton(Lit("Quit"), s_quit)>> >>

\* show_main_menu: edits the message of a callback query, else replies to
\* update.message; an update with neither (an edited message, which has
\* update.edited_message only) raises AttributeError at update.message.reply_text
show_main_menu(has_callback_query, has_message, is_comparing) ==
    LET reply_markup == InlineKeyboardMarkup(main_menu_keyboard)
        text == IF ~is_comparing
                THEN Lit("Welcome to the Crypto Price Bot! What would you like to do?")
                ELSE Lit("Select a cryptocurrency to compare.")
    IN  IF has_callback_query
        THEN Sent(<<EditMessageText(text, reply_markup)>>)
        ELSE IF has_message
        THEN Sent(<<ReplyText(text, reply_markup)>>)
        ELSE Raise(<<>>)

\* the button show_crypto_list makes of one element of the list
crypto_button(crypto) ==
    LET name == Get(crypto, "name", s_Unknown)
        symbol == Get(crypto, "symbol", s_Unknown)
        crypto_id == Get(crypto, "id", s_unknown)
    IN  InlineKeyboardButton(Txt("{name} ({symbol.upper()})", <<name, Upper(symbol)>>),
                             s_crypto_prefix \o crypto_id)

\* (mutant) the row made of cryptos[i:i+1]: every second element is dropped
crypto_row_single(cryptos, i) ==
    LET part == Slice(cryptos, i, i + 1)
    IN  [k \in 1..Len(part) |-> crypto_button(part[k])]

\* the row show_crypto_list makes of cryptos[i:i+2]
crypto_row(cryptos, i) ==
    LET part == Slice(cryptos, i, i + 2)
    IN  [k \in 1..Len(part) |-> crypto_button(part[k])]

\* the keyboard show_crypto_list builds from a list
crypto_keyboard(cryptos) ==
    LET starts == Range(0, Len(cryptos), 2)
    IN  [r \in 1..Len(starts) |-> crypto_row(cryptos, starts[r])]
        \o << <<InlineKeyboardButton(Lit("Back to Main Menu"), s_main_menu)>> >>

\* show_crypto_list: len(None) raises TypeError, and so does slicing a dict
\* that has keys; a dict without keys is looped over zero times
show_crypto_list(cryptos, title) ==
    IF IsNone(cryptos) THEN Raise(<<>>)
    ELSE IF cryptos.t = "dict" /\ DOMAIN cryptos.v # {} THEN Raise(<<>>)
    ELSE LET list == IF cryptos.t = "list" THEN cryptos.v ELSE <<>>
         IN  Sent(<<EditMessageText(title, InlineKeyboardMarkup(crypto_keyboard(list)))>>)

details_keyboard ==
    << <<InlineKeyboardButton(Lit("Compare with another Cryptocurrency"), s_compare_selection)>>,
       <<InlineKeyboardButton(Lit("Main Menu"), s_main_menu)>>,
       <<InlineKeyboardButton(Lit("Quit"), s_quit)>> >>

\* the message show_crypto_details formats from a truthy answer
details_message(crypto_id, currency, details) ==
    LET price == Get(details.v, currency, s_NA)
        change_24h == Get(details.v, currency \o s_24h_change, s_NA)
        market_cap == Get(details.v, currency \o s_market_cap, s_NA)
        trading_volume == Get(details.v, currency \o s_24h_vol, s_NA)
    IN  Txt("{crypto_id.capitalize()} ({currency.upper()}) Price: {price} {currency.upper()} 24h Change: {change_24h}% Market Cap: {market_cap} {currency.upper()} 24h Trading Volume: {trading_volume} {currency.upper()}",
            <<Capitalize(crypto_id), Upper(currency), price, Upper(currency), change_24h,
              market_cap, Upper(currency), trading_volume, Upper(currency)>>)

\* (mutant) show_crypto_details offering the options after the failure notice too
show_crypto_details_options(crypto_id, currency, details) ==
    IF Truthy(details)
    THEN Sent(<<EditMessageText(details_message(crypto_id, currency, details), None),
                ReplyText(Lit("Select an option:"), InlineKeyboardMarkup(details_keyboard))>>)
    ELSE Sent(<<EditMessageText(Lit("Unable to retrieve cryptocurrency details."), None),
                ReplyText(Lit("Select an option:"), InlineKeyboardMarkup(details_keyboard))>>)

\* show_crypto_details, after get_crypto_details answered `details`
show_crypto_details(crypto_id, currency, details) ==
    IF Truthy(details)
    THEN Sent(<<EditMessageText(details_message(crypto_id, currency, details), None),
                ReplyText(Lit("Select an option:"), InlineKeyboardMarkup(details_keyboard))>>)
    ELSE Sent(<<EditMessageText(Lit("Unable to retrieve cryptocurrency details."), None)>>)

currency_keyboard ==
    [k \in 1..Len(SUPPORTED_CURRENCIES) |->
        <<InlineKeyboardButton(Txt("{currency.upper()}", <<Upper(SUPPORTED_CURRENCIES[k])>>),
                               s_currency_prefix \o SUPPORTED_CURRENCIES[k])>>]
    \o << <<InlineKeyboardButton(Lit("Back to Main Menu"), s_main_menu)>> >>

show_currency_options ==
    Sent(<<EditMessageText(Lit("Choose a currency:"), InlineKeyboardMarkup(currency_keyboard))>>)

----------------------------------------------------------------------------
(* The API helper functions.                                               *)

\* range(5) of make_api_request
RETRIES == 5

\* the three get_* functions as the make_api_request call each one makes
get_top_cryptos(limit) ==
    [fn |-> "get_top_cryptos", url |-> "/coins/markets",
     params |-> [vs_currency |-> s_usd, order |-> "market_cap_desc", per_page |-> limit,
                 page |-> 1, sparkline |-> FALSE]]

get_trending_cryptos ==
    [fn |-> "get_trending_cryptos", url |-> "/search/trending", params |-> None]

get_crypto_details(crypto_id, currency) ==
    [fn |-> "get_crypto_details", url |-> "/simple/price",
     params |-> [ids |-> crypto_id, vs_currencies |-> currency,
                 include_24hr_change |-> "true", include_market_cap |-> "true"]]

\* what one attempt of make_api_request can end in: response.json() returned
\* `json`, raise_for_status() raised HTTPError, or anything else was raised
Ok(json) == [kind |-> "ok", json |-> json]
HttpError == [kind |-> "http", json |-> None]
OtherError == [kind |-> "other", json |-> None]

\* (mutant) make_api_request giving up one attempt early
make_api_request_short(h, o) ==
    LET attempts == Append(h, o)
    IN  IF o.kind = "ok"
        THEN [hist |-> attempts, pc |-> "returned", result |-> o.json]
        ELSE IF o.kind = "http"
        THEN IF Len(attempts) < RETRIES - 1
             THEN [hist |-> attempts, pc |-> "request", result |-> None]
             ELSE [hist |-> attempts, pc |-> "returned", result |-> None]
        ELSE [hist |-> attempts, pc |-> "returned", result |-> None]

\* (mutant) make_api_request retrying after every exception
make_api_request_retry_all(h, o) ==
    LET attempts == Append(h, o)
    IN  IF o.kind = "ok"
        THEN [hist |-> attempts, pc |-> "returned", result |-> o.json]
        ELSE IF Len(attempts) < RETRIES
             THEN [hist |-> attempts, pc |-> "request", result |-> None]
             ELSE [hist |-> attempts, pc |-> "returned", result |-> None]

\* one iteration of the loop of make_api_request, after the attempts h:
\* return response.json(); or sleep and go round again while the range lasts,
\* falling out to return None; or break to return None
make_api_request(h, o) ==
    LET attempts == Append(h, o)
    IN  IF o.kind = "ok"
        THEN [hist |-> attempts, pc |-> "returned", result |-> o.json]
        ELSE IF o.kind = "http"
        THEN IF Len(attempts) < RETRIES
             THEN [hist |-> attempts, pc |-> "request", result |-> None]
             ELSE [hist |-> attempts, pc |-> "returned", result |-> None]
        ELSE [hist |-> attempts, pc |-> "returned", result |-> None]

----------------------------------------------------------------------------
(* The handlers.  A handler runs until it calls a get_* function (Await)   *)
(* or ends (Done, Failed); after the call it is resumed with the answer.   *)

Done(msgs, retval, ud) ==
    [next |-> "idle", out |-> msgs, ret |-> retval, raised |-> FALSE,
     user_data |-> ud, call |-> None]
Failed(msgs, ud) ==
    [next |-> "idle", out |-> msgs, ret |-> None, raised |-> TRUE,
     user_data |-> ud, call |-> None]
Await(msgs, thecall, ud) ==
    [next |-> "request", out |-> msgs, ret |-> None, raised |-> FALSE,
     user_data |-> ud, call |-> thecall]

\* the handler goes on after `await show_...`: an exception of it ends the handler
After(shown, retval, ud) ==
    IF shown.raised THEN Failed(shown.out, ud) ELSE Done(shown.out, retval, ud)

\* start, of a /start sent as a new message (has_message) or made by editing
\* a message into /start
start(has_message, ud) == After(show_main_menu(FALSE, has_message, FALSE), PyInt(MAIN_MENU), ud)

\* context.user_data.get('crypto', 'bitcoin') of the currency branch
currency_crypto_id(ud) == Get(ud, "crypto", PyStr(s_bitcoin)).v

\* (mutant) the guard returning to the main menu as the other branches do
compare_guard_menu(ud) ==
    Done(<<EditMessageText(Lit("Please select a cryptocurrency before comparing."), None)>>,
         PyInt(MAIN_MENU), ud)

\* the compare branch without a stored asset: the notice and a bare return
compare_guard(ud) ==
    Done(<<EditMessageText(Lit("Please select a cryptocurrency before comparing."), None)>>,
         None, ud)

\* button_click up to its get_* call, or to its end when it makes none
\* (mutant) the last branch going back to the main menu without its notice
invalid_selection_silent(ud) == After(show_main_menu(TRUE, FALSE, FALSE), PyInt(MAIN_MENU), ud)

\* the last branch of button_click, of a payload no other branch takes
invalid_selection(ud) ==
    LET menu == show_main_menu(TRUE, FALSE, FALSE)
    IN  After([menu EXCEPT !.out =
                   <<EditMessageText(Lit("Invalid selection. Returning to main menu."), None)>> \o @],
              PyInt(MAIN_MENU), ud)

button_click(data, ud) ==
    IF data = s_main_menu
    THEN After(show_main_menu(TRUE, FALSE, FALSE), PyInt(MAIN_MENU), ud)
    ELSE IF data = s_top100
    THEN Await(<<EditMessageText(Lit("Fetching top cryptocurrencies, please wait..."), None)>>,
               get_top_cryptos(100), ud)
    ELSE IF data = s_quit
    THEN Done(<<EditMessageText(Lit("You can return to the main menu anytime by using /start."), None)>>,
              PyInt(MAIN_MENU), ud)
    ELSE IF data = s_trending
    THEN Await(<<EditMessageText(Lit("Fetching trending cryptocurrencies, please wait..."), None)>>,
               get_trending_cryptos, ud)
    ELSE IF data = s_search
    THEN Done(<<EditMessageText(Lit("Please enter the name of the cryptocurrency you want to check:"), None)>>,
              PyInt(TYPING_SEARCH), ud)
    ELSE IF StartsWith(data, s_crypto_prefix)
    THEN After(show_currency_options, PyInt(CHOOSING_CURRENCY),
               [k \in DOMAIN ud \cup {"crypto"} |->
                    IF k = "crypto" THEN PyStr(Split(data, ":")[2]) ELSE ud[k]])
    ELSE IF StartsWith(data, s_currency_prefix)
    THEN Await(<<>>, get_crypto_details(currency_crypto_id(ud), Split(data, ":")[2]), ud)
    ELSE IF data = s_compare_selection
    THEN IF ~Truthy(Get(ud, "crypto", None))
         THEN compare_guard(ud)
         ELSE Await(<<EditMessageText(Lit("Fetching top 100 currencies for comparison, please wait..."), None)>>,
                    get_top_cryptos(100), ud)
    ELSE invalid_selection(ud)

\* (mutant) the compare branch returning a number that names no state
compare_return_undefined == PyInt(COMPARE_SELECTION + 1)

\* the state button_click returns after the list of the compare branch
compare_return == PyInt(CHOOSING_CURRENCY)

\* button_click from the answer `answer` of its get_* call to its end
button_click_resume(data, ud, answer) ==
    IF data = s_top100
    THEN After(show_crypto_list(answer, Lit("Top 100 Cryptocurrencies:")),
               PyInt(CHOOSING_CRYPTO), ud)
    ELSE IF data = s_trending
    THEN After(show_crypto_list(answer, Lit("Trending Cryptocurrencies:")),
               PyInt(CHOOSING_CRYPTO), ud)
    ELSE IF StartsWith(data, s_currency_prefix)
    THEN After(show_crypto_details(currency_crypto_id(ud), Split(data, ":")[2], answer),
               PyInt(COMPARE_SELECTION), ud)
    ELSE After(show_crypto_list(answer, Txt("Compare {crypto_id} with another currency:",
                                            <<Get(ud, "crypto", None).v>>)),
               compare_return, ud)

\* button_click registered for text messages: update.callback_query is None
\* there, so query.answer() raises AttributeError
button_click_message(ud) == Failed(<<>>, ud)

----------------------------------------------------------------------------
(* The inputs: conversations, updates and what the API answers.            *)

\* two conversations (chats), of two users or both of one user
Convs == {"A", "B"}
Users == {"u1", "u2"}
OwnUser == [c \in Convs |-> IF c = "A" THEN "u1" ELSE "u2"]
OneUser == [c \in Convs |-> "u1"]

\* elements of a list answer: a full one, one whose id holds a ':' and that
\* has no symbol, and one without an id
c_bitcoin == [id |-> s_bitcoin, name |-> <<"B","i","t","c","o","i","n">>, symbol |-> <<"b","t","c">>]
c_colon == [id |-> <<"x",":","y">>, name |-> <<"X">>]
c_anon == [name |-> <<"Z">>, symbol |-> <<"z">>]

Catalog == {c_bitcoin, c_colon, c_anon}
ConvCatalog == {c_bitcoin, c_colon}

SeqsUpTo(S, n) == UNION {[1..k -> S] : k \in 0..n}

\* a JSON object where a list was expected
ObjectBody == PyDict(<<"c","o","i","n","s">> :> PyList(<<>>))

ListBodies(S, n) == {PyList(l) : l \in SeqsUpTo(S, n)} \cup {ObjectBody}

\* the fields of a quote, by the name the code gives each
price_text == <<"1","0","0">>
change_text == <<"2",".","5">>
cap_text == <<"3","0","0","0">>
vol_text == <<"4","0">>

QuoteFields == {"price", "change_24h", "market_cap", "trading_volume"}

\* the record of one asset in one currency, holding the fields `present`
QuoteRecord(currency, present) ==
    LET key(f) == CASE f = "price" -> currency
                    [] f = "change_24h" -> currency \o s_24h_change
                    [] f = "market_cap" -> currency \o s_market_cap
                    [] f = "trading_volume" -> currency \o s_24h_vol
        val(f) == CASE f = "price" -> price_text
                    [] f = "change_24h" -> change_text
                    [] f = "market_cap" -> cap_text
                    [] f = "trading_volume" -> vol_text
    IN  [k \in {key(f) : f \in present} |->
            val(CHOOSE f \in present : key(f) = k)]

\* all fields, all but the market cap, all but the volume
FieldSets == {QuoteFields, QuoteFields \ {"market_cap"}, QuoteFields \ {"trading_volume"}}

\* answers of /simple/price: the record under the asset's id, the bare
\* record, and the empty object
QuoteBodies(crypto_id, currency) ==
    {PyDict(crypto_id :> PyDict(QuoteRecord(currency, present))) : present \in FieldSets}
    \cup {PyDict(QuoteRecord(currency, present)) : present \in FieldSets}
    \cup {PyDict(EmptyDict)}

\* what response.json() can be for a call, the lists drawn from S up to n long
Bodies(thecall, S, n) ==
    IF thecall.fn = "get_crypto_details"
    THEN QuoteBodies(thecall.params.ids, thecall.params.vs_currencies)
    ELSE ListBodies(S, n)

Outcomes(thecall, S, n) == {Ok(b) : b \in Bodies(thecall, S, n)} \cup {HttpError, OtherError}

CurrencyInputs == {SUPPORTED_CURRENCIES[k] : k \in 1..MaxCurrencies}

\* the payloads of the buttons the renderers make, a currency payload whose
\* code holds a ':', and a payload no branch is for
Payloads ==
    {s_main_menu, s_top100, s_quit, s_trending, s_search, s_compare_selection}
    \cup {crypto_button(c).callback_data : c \in ConvCatalog}
    \cup {s_currency_prefix \o c : c \in CurrencyInputs}
    \cup {s_currency_prefix \o <<"a", ":", "b">>}
    \cup {<<"x">>}

Updates ==
    {[kind |-> "start", data |-> <<>>], [kind |-> "start_edited", data |-> <<>>]}
    \cup {[kind |-> "callback_query", data |-> d] : d \in Payloads}
    \cup {[kind |-> "message", data |-> s_bitcoin]}

----------------------------------------------------------------------------
(* The state machine.                                                      *)

NoUpdate == [conv |-> "A", kind |-> "none", data |-> <<>>]

Init ==
    /\ state = [c \in Convs |-> MAIN_MENU]
    /\ user \in {OwnUser, OneUser}
    /\ user_data = [w \in Users |-> EmptyDict]
    /\ pc = "idle"
    /\ cur = NoUpdate
    /\ call = None
    /\ hist = <<>>
    /\ result = None
    /\ out = <<>>
    /\ fetches = <<>>
    /\ ret = None
    /\ raised = FALSE

\* the conversation state after a handler returned retval: None keeps it.
\* The source registers its handlers bare and stores no returned value; the
\* state is kept here as the specification of the program describes it, the
\* state the handler of the last event yielded.
next_state(old, retval) == IF IsNone(retval) THEN old ELSE retval.v

\* the effect of a handler step `step` of conversation c
Apply(c, step, sent) ==
    /\ pc' = step.next
    /\ out' = sent \o step.out
    /\ ret' = step.ret
    /\ raised' = step.raised
    /\ user_data' = [user_data EXCEPT ![user[c]] = step.user_data]
    /\ user' = user
    /\ call' = step.call
    /\ state' = [state EXCEPT ![c] = next_state(@, step.ret)]

\* the application takes update u of conversation c and runs its handler
Dispatch(c, u) ==
    /\ pc = "idle"
    /\ cur' = [conv |-> c, kind |-> u.kind, data |-> u.data]
    /\ hist' = <<>>
    /\ result' = None
    /\ LET step == IF u.kind = "start" THEN start(TRUE, user_data[user[c]])
                   ELSE IF u.kind = "start_edited" THEN start(FALSE, user_data[user[c]])
                   ELSE IF u.kind = "callback_query" THEN button_click(u.data, user_data[user[c]])
                   ELSE button_click_message(user_data[user[c]])
       IN  /\ Apply(c, step, <<>>)
           /\ fetches' = IF step.next = "request" THEN <<step.call>> ELSE <<>>

\* one attempt of the make_api_request call in progress; when the call
\* returns, the handler goes on with the answer to its end
Attempt ==
    /\ pc = "request"
    /\ \E o \in Outcomes(call, ConvCatalog, MaxConvList) :
          LET r == make_api_request(hist, o)
          IN  IF r.pc = "request"
              THEN /\ hist' = r.hist
                   /\ UNCHANGED <<state, user, user_data, pc, call, result, out, ret, raised>>
              ELSE /\ hist' = <<>>
                   /\ result' = r.result
                   /\ Apply(cur.conv,
                            button_click_resume(cur.data, user_data[user[cur.conv]], r.result), out)
    /\ UNCHANGED <<cur, fetches>>

Next ==
    \/ \E c \in Convs, u \in Updates : Dispatch(c, u)
    \/ Attempt

Spec == Init /\ [][Next]_vars

----------------------------------------------------------------------------
(* make_api_request alone: every call, every sequence of outcomes.         *)

Calls ==
    {get_top_cryptos(100), get_trending_cryptos}
    \cup {get_crypto_details(i, c) : i \in {s_bitcoin, <<"x">>}, c \in CurrencyInputs}

InitFetch ==
    /\ state = [c \in Convs |-> MAIN_MENU]
    /\ user = OwnUser
    /\ user_data = [w \in Users |-> EmptyDict]
    /\ pc = "request"
    /\ cur = NoUpdate
    /\ call \in Calls
    /\ hist = <<>>
    /\ result = None
    /\ out = <<>>
    /\ fetches = <<call>>
    /\ ret = None
    /\ raised = FALSE

Request ==
    /\ pc = "request"
    /\ \E o \in Outcomes(call, ConvCatalog, MaxConvList) :
          LET r == make_api_request(hist, o)
          IN  /\ hist' = r.hist
              /\ pc' = r.pc
              /\ result' = r.result
    /\ UNCHANGED <<state, user, user_data, cur, call, out, fetches, ret, raised>>

SpecFetch == InitFetch /\ [][Request]_vars

----------------------------------------------------------------------------
(* The handler from the answer of its get_* call on: every answer.         *)

UserDatas == {EmptyDict} \cup {[k \in {"crypto"} |-> PyStr(i)] : i \in {s_bitcoin, <<"x">>}}

InitResume ==
    /\ state = [c \in Convs |-> MAIN_MENU]
    /\ user = OwnUser
    /\ pc = "returned"
    /\ hist = <<>>
    /\ ret = None
    /\ raised = FALSE
    /\ \E c \in Convs, u \in Updates, ud \in UserDatas :
          LET step == button_click(u.data, ud)
          IN  /\ u.kind = "callback_query"
              /\ step.next = "request"
              /\ cur = [conv |-> c, kind |-> u.kind, data |-> u.data]
              /\ user_data = [w \in Users |-> IF w = user[c] THEN ud ELSE EmptyDict]
              /\ call = step.call
              /\ out = step.out
              /\ fetches = <<step.call>>
              /\ result \in Bodies(step.call, Catalog, MaxList) \cup {None}

Resume ==
    /\ pc = "returned"
    /\ Apply(cur.conv, button_click_resume(cur.data, user_data[user[cur.conv]], result), out)
    /\ UNCHANGED <<cur, hist, result, fetches>>

SpecResume == InitResume /\ [][Resume]_vars

----------------------------------------------------------------------------
(* Properties of make_api_request (checked under SpecFetch).               *)

Last(h) == h[Len(h)]

\* every attempt of h but the last ended in an HTTP error
RetriedUpTo(h) == \A i \in 1..(Len(h) - 1) : h[i].kind = "http"

\* h is a whole run of attempts: it ends in a success, in another error, or
\* in the fifth HTTP error
WholeRun(h) ==
    /\ h # <<>>
    /\ RetriedUpTo(h)
    /\ Last(h).kind = "http" => Len(h) = 5

\* what the caller is to get of the attempts h
Expected(h) ==
    IF Len(h) <= 5 /\ RetriedUpTo(h) /\ Last(h).kind = "ok" THEN Last(h).json ELSE None

\* C1: when make_api_request returns, the attempts made are a whole run (it
\* gave up on HTTP errors only after the fifth), and it returns the decoded
\* answer of attempt k when that one succeeded after k-1 HTTP errors, k <= 5,
\* and None in every other case
C1_Returns ==
    pc = "returned" => /\ WholeRun(hist)
                       /\ result = Expected(hist)

\* four HTTP errors and then a success: the success's answer is returned
C1_Witness ==
    /\ pc = "returned"
    /\ Len(hist) = 5
    /\ \A i \in 1..4 : hist[i].kind = "http"
    /\ hist[5].kind = "ok"
    /\ result = hist[5].json
    /\ ~IsNone(result)

\* C2: a call makes at most 5 attempts, every attempt but the last ended in an
\* HTTP error, and after a success or another error the call has returned
C2_Attempts ==
    /\ Len(hist) <= 5
    /\ RetriedUpTo(hist)
    /\ (hist # <<>> /\ Last(hist).kind # "http") => pc = "returned"

\* another error on the third attempt: three attempts, and the call is over
C2_Witness ==
    /\ pc = "returned"
    /\ Len(hist) = 3
    /\ hist[3].kind = "other"
    /\ ~ENABLED Request

----------------------------------------------------------------------------
(* Properties of the handlers (checked under Spec unless said otherwise).  *)

\* the handler of a callback query with payload d has ended
Handled(d) == pc = "idle" /\ cur.kind = "callback_query" /\ cur.data = d

\* the handler of a currency selection has ended
HandledCurrency ==
    pc = "idle" /\ cur.kind = "callback_query" /\ StartsWith(cur.data, s_currency_prefix)

\* the conversation of cur has an asset stored
HasAsset == Truthy(Get(user_data[user[cur.conv]], "crypto", None))

\* C3 as claimed: "Compare" with an asset stored, handled to its end, leaves
\* the conversation in ChoosingAsset after exactly one top-N fetch
C3_Claim ==
    (Handled(s_compare_selection) /\ HasAsset /\ ~raised)
        => /\ state[cur.conv] = CHOOSING_CRYPTO
           /\ fetches = <<get_top_cryptos(100)>>

guard_message ==
    EditMessageText(Lit("Please select a cryptocurrency before comparing."), None)

\* C4: "Compare" taken from the idle loop for a conversation without a stored
\* asset sends the guard message and nothing else, makes no fetch, ends
\* without an exception, and changes neither the conversation states nor
\* the stored selections
C4_GuardInPlace ==
    [][(/\ pc = "idle"
        /\ cur'.kind = "callback_query"
        /\ cur'.data = s_compare_selection
        /\ ~Truthy(Get(user_data[user[cur'.conv]], "crypto", None)))
       => (/\ pc' = "idle"
           /\ out' = <<guard_message>>
           /\ fetches' = <<>>
           /\ ~raised'
           /\ state' = state
           /\ user_data' = user_data)]_vars

\* the guard has answered in a conversation that is typing a search
C4_Witness ==
    /\ Handled(s_compare_selection)
    /\ ~HasAsset
    /\ out = <<guard_message>>
    /\ state[cur.conv] = TYPING_SEARCH

\* a quote fetch was made for the update cur
QuoteFetched == \E i \in 1..Len(fetches) : fetches[i].fn = "get_crypto_details"

CurrencyWithoutAsset ==
    /\ cur.kind = "callback_query"
    /\ StartsWith(cur.data, s_currency_prefix)
    /\ "crypto" \notin DOMAIN user_data[user[cur.conv]]

\* C5 as claimed: a currency selection without a chosen asset never causes a
\* quote fetch
C5_Claim == CurrencyWithoutAsset => ~QuoteFetched

\* C6 as claimed: the handler of a start command or a menu selection always
\* ends with a notice sent and without an exception
C6_Claim ==
    (pc = "idle" /\ cur.kind \in {"start", "start_edited", "callback_query"})
        => /\ ~raised
           /\ out # <<>>

\* C7: the state of every conversation is one of the five defined states, and
\* what a handler returned is one of them or None, which keeps the state
C7_DefinedState ==
    /\ \A c \in Convs : state[c] \in {0, 1, 2, 3, 4}
    /\ ~IsNone(ret) => ret.v \in {0, 1, 2, 3, 4}

\* a comparison was started and its list shown: the handler returned a state
C7_Witness ==
    /\ Handled(s_compare_selection)
    /\ HasAsset
    /\ ~raised
    /\ ~IsNone(ret)
    /\ state[cur.conv] = ret.v

----------------------------------------------------------------------------
(* Properties of the renderers.                                            *)

IdOf(crypto) == IF "id" \in DOMAIN crypto THEN crypto.id ELSE s_unknown
NameOf(crypto) == IF "name" \in DOMAIN crypto THEN crypto.name ELSE s_Unknown

back_row == <<InlineKeyboardButton(Lit("Back to Main Menu"), s_main_menu)>>

\* the handler has shown the list its get_* call answered
ListShown == pc = "idle" /\ cur.kind = "callback_query" /\ result.t = "list"

\* C8 (under SpecResume): a fetched list of N assets is shown, without an
\* exception, as a keyboard of ceil(N/2) asset rows and then the one "Back to
\* Main Menu" row; every asset row holds 2 buttons but the last, which holds
\* 1 when N is odd; and the button in row r, column j is the one of element
\* 2(r-1)+j of the list, by its payload crypto:<id> and by its name
C8_Keyboard ==
    ListShown =>
        LET list == result.v
            N == Len(list)
            rows == (N + 1) \div 2
            keyboard == out[Len(out)].reply_markup.inline_keyboard
        IN  /\ ~raised
            /\ Len(keyboard) = rows + 1
            /\ keyboard[rows + 1] = back_row
            /\ \A r \in 1..rows :
                  /\ Len(keyboard[r]) = IF r < rows \/ N % 2 = 0 THEN 2 ELSE 1
                  /\ \A j \in 1..Len(keyboard[r]) :
                        /\ 2 * (r - 1) + j <= N
                        /\ keyboard[r][j].callback_data
                               = s_crypto_prefix \o IdOf(list[2 * (r - 1) + j])
                        /\ keyboard[r][j].text.args[1] = NameOf(list[2 * (r - 1) + j])

\* three assets shown in two asset rows and the back row
C8_Witness ==
    /\ ListShown
    /\ result.v = <<c_colon, c_bitcoin, c_anon>>
    /\ Len(out[Len(out)].reply_markup.inline_keyboard) = 3
    /\ Len(out[Len(out)].reply_markup.inline_keyboard[2]) = 1

\* the answer holds a record under the requested asset's id that has the
\* price, the change and the volume in the requested currency and no market cap
QuoteWithoutCap ==
    /\ result.t = "dict"
    /\ fetches[1].params.ids \in DOMAIN result.v
    /\ LET currency == fetches[1].params.vs_currencies
           record == result.v[fetches[1].params.ids].v
       IN  /\ {currency, currency \o s_24h_change, currency \o s_24h_vol} \subseteq DOMAIN record
           /\ (currency \o s_market_cap) \notin DOMAIN record

\* C9 as claimed: a quote answer without the market cap is rendered, without
\* an exception, with the price, the change and the volume as the answer
\* gives them for the requested asset and currency, and N/A for the market cap
C9_Claim ==
    (HandledCurrency /\ QuoteWithoutCap) =>
        LET currency == fetches[1].params.vs_currencies
            record == result.v[fetches[1].params.ids].v
            shown == out[1].text.args
        IN  /\ ~raised
            /\ shown[3] = record[currency]
            /\ shown[5] = record[currency \o s_24h_change]
            /\ shown[6] = s_NA
            /\ shown[8] = record[currency \o s_24h_vol]

unable_message ==
    EditMessageText(Lit("Unable to retrieve cryptocurrency details."), None)

\* C10: after a currency selection whose quote fetch returned None the one
\* message sent is the unable-to-retrieve notice, and a message with options
\* is sent only when the quote fetch returned an answer
C10_NoOptionsOnFailure ==
    HandledCurrency =>
        /\ IsNone(result) => out = <<unable_message>>
        /\ (\E i \in 1..Len(out) : out[i].reply_markup # None) => ~IsNone(result)

C10_Witness ==
    /\ HandledCurrency
    /\ Len(fetches) = 1
    /\ IsNone(result)
    /\ out = <<unable_message>>
    /\ ~raised

----------------------------------------------------------------------------
(* Properties of the event loop and of the conversations' contexts.        *)

\* the fetch of the conversation of cur is between an HTTP error and its
\* next attempt: make_api_request is in sleep(2)
RetryWait == pc = "request" /\ hist # <<>>

\* C11 as claimed: while the fetch of one conversation is in its retry wait,
\* the application can take an update of another conversation and run its
\* handler
C11_Claim ==
    RetryWait => \E c \in Convs \ {cur.conv} : \E u \in Updates : ENABLED Dispatch(c, u)

\* what a user_data dict holds: an asset, or nothing
Stored(ud) == IF "crypto" \in DOMAIN ud THEN {ud["crypto"].v} ELSE {}

\* C12 as claimed: a step of the handler of one conversation leaves what is
\* stored for every other conversation, the asset its next currency
\* selection is quoted for, as it was
C12_Claim ==
    [][\A c \in Convs \ {cur'.conv} :
          Stored(user_data'[user[c]]) = Stored(user_data[user[c]])]_vars

----------------------------------------------------------------------------
(* Properties of the menu transitions.                                     *)

\* the payloads of a keyboard's buttons, row by row
PayloadsOf(keyboard) ==
    [r \in 1..Len(keyboard) |-> [j \in 1..Len(keyboard[r]) |-> keyboard[r][j].callback_data]]

\* the literal texts of a keyboard's buttons, row by row
LabelsOf(keyboard) ==
    [r \in 1..Len(keyboard) |-> [j \in 1..Len(keyboard[r]) |-> keyboard[r][j].text.fmt]]

MainMenuEvent ==
    /\ pc = "idle"
    /\ \/ cur.kind \in {"start", "start_edited"}
       \/ cur.kind = "callback_query" /\ cur.data = s_main_menu

\* C13 as claimed: the start command, however it was sent, and the "Main
\* Menu" selection end, without an exception and without a fetch, with one
\* message sent, the main menu: four rows of one button each, Top 100,
\* Trending, Search and Quit in this order; and the conversation is in
\* MainMenu
C13_Claim ==
    MainMenuEvent =>
        /\ ~raised
        /\ fetches = <<>>
        /\ Len(out) = 1
        /\ out[1].op = IF cur.kind = "callback_query" THEN "edit_message_text" ELSE "reply_text"
        /\ PayloadsOf(out[1].reply_markup.inline_keyboard)
               = << <<s_top100>>, <<s_trending>>, <<s_search>>, <<s_quit>> >>
        /\ LabelsOf(out[1].reply_markup.inline_keyboard)
               = << <<"Top 100 Cryptocurrencies">>, <<"Trending Cryptocurrencies">>,
                    <<"Search Cryptocurrency">>, <<"Quit">> >>
        /\ ret = PyInt(MAIN_MENU)
        /\ state[cur.conv] = MAIN_MENU

----------------------------------------------------------------------------
(* Properties of the asset and currency selections.                        *)

\* what follows the prefix in a payload
IdIn(data, prefix) == SubSeq(data, Len(prefix) + 1, Len(data))

HandledCrypto ==
    pc = "idle" /\ cur.kind = "callback_query" /\ StartsWith(cur.data, s_crypto_prefix)

\* the nine supported currency codes, in the order of their rows
NineCodes == <<s_usd, s_eur, s_gbp, s_jpy, s_aud, s_cad, s_chf, s_cny, s_inr>>

\* C14 as claimed: after the selection crypto:<id> the stored asset is <id>,
\* no fetch was made, the one message sent has nine rows of one currency
\* option each, with payload currency:<code>, and one row back to the main
\* menu, and the conversation is in ChoosingCurrency
C14_Claim ==
    HandledCrypto =>
        /\ Stored(user_data[user[cur.conv]]) = {IdIn(cur.data, s_crypto_prefix)}
        /\ fetches = <<>>
        /\ ~raised
        /\ Len(out) = 1
        /\ PayloadsOf(out[1].reply_markup.inline_keyboard)
               = [k \in 1..Len(NineCodes) |-> <<s_currency_prefix \o NineCodes[k]>>]
                 \o << <<s_main_menu>> >>
        /\ state[cur.conv] = CHOOSING_CURRENCY

\* the message that offers Compare, Main Menu and Quit is the last one sent
OptionsOffered ==
    /\ out # <<>>
    /\ out[Len(out)].reply_markup # None
    /\ PayloadsOf(out[Len(out)].reply_markup.inline_keyboard)
           = << <<s_compare_selection>>, <<s_main_menu>>, <<s_quit>> >>

\* exactly one fetch was made, the quote of the stored asset in the currency
\* of the payload
OneQuoteFetch ==
    /\ Len(fetches) = 1
    /\ fetches[1].fn = "get_crypto_details"
    /\ {fetches[1].params.ids} = Stored(user_data[user[cur.conv]])
    /\ fetches[1].params.vs_currencies = IdIn(cur.data, s_currency_prefix)

\* C15 as claimed: after the selection currency:<code> with an asset stored
\* exactly one quote fetch was made, for the stored asset and <code>, the
\* conversation is in CompareSelection, and whenever the fetch returned an
\* answer the options Compare, Main Menu and Quit are offered
C15_Claim ==
    (HandledCurrency /\ HasAsset) =>
        /\ OneQuoteFetch
        /\ state[cur.conv] = COMPARE_SELECTION
        /\ ~IsNone(result) => OptionsOffered

\* no branch of button_click is for this payload
Unrecognized(data) ==
    /\ data \notin {s_main_menu, s_top100, s_quit, s_trending, s_search, s_compare_selection}
    /\ ~StartsWith(data, s_crypto_prefix)
    /\ ~StartsWith(data, s_currency_prefix)

\* C16: in whatever state and with whatever asset stored, the handler of a
\* selection with an unrecognized payload ends without an exception and
\* without a fetch, having sent the invalid-selection notice and then the
\* main menu; what is stored does not change and the conversation is in
\* MainMenu
C16_InvalidSelection ==
    [][(pc = "idle" /\ cur'.kind = "callback_query" /\ Unrecognized(cur'.data)) =>
          /\ pc' = "idle"
          /\ ~raised'
          /\ fetches' = <<>>
          /\ Len(out') = 2
          /\ out'[1] = EditMessageText(Lit("Invalid selection. Returning to main menu."), None)
          /\ out'[2].op = "edit_message_text"
          /\ PayloadsOf(out'[2].reply_markup.inline_keyboard)
                 = << <<s_top100>>, <<s_trending>>, <<s_search>>, <<s_quit>> >>
          /\ user_data' = user_data
          /\ state' = [state EXCEPT ![cur'.conv] = MAIN_MENU]]_vars

\* an unrecognized payload was handled for a conversation that holds an
\* asset, and the notice came before the menu
C16_Witness ==
    /\ pc = "idle"
    /\ cur.kind = "callback_query"
    /\ Unrecognized(cur.data)
    /\ HasAsset
    /\ Len(out) = 2
    /\ out[1].reply_markup = None
    /\ state[cur.conv] = MAIN_MENU

\* the payloads the asset list and the currency list are rendered with
AssetPayloads == {crypto_button(c).callback_data : c \in ConvCatalog}
CurrencyPayloads ==
    {currency_keyboard[k][1].callback_data : k \in 1..Len(SUPPORTED_CURRENCIES)}

\* C17 as claimed: the asset id stored after the selection of a rendered
\* asset option is the id the option was rendered from, and the currency
\* code a quote is fetched in after the selection of a rendered currency
\* option is the code the option was rendered from
C17_Claim ==
    /\ (HandledCrypto /\ cur.data \in AssetPayloads) =>
           \E c \in ConvCatalog :
               /\ cur.data = crypto_button(c).callback_data
               /\ Stored(user_data[user[cur.conv]]) = {IdOf(c)}
    /\ (HandledCurrency /\ cur.data \in CurrencyPayloads) =>
           \E k \in 1..Len(SUPPORTED_CURRENCIES) :
               /\ cur.data = currency_keyboard[k][1].callback_data
               /\ fetches[1].params.vs_currencies = SUPPORTED_CURRENCIES[k]

\* C18 as claimed: a step that handles the selection crypto:<id> leaves <id>
\* stored for its conversation, and every other step leaves what is stored
\* as it was
C18_Claim ==
    [][IF pc = "idle" /\ cur'.kind = "callback_query" /\ StartsWith(cur'.data, s_crypto_prefix)
       THEN /\ Stored(user_data'[user[cur'.conv]]) = {IdIn(cur'.data, s_crypto_prefix)}
            /\ \A c \in Convs \ {cur'.conv} : user[c] # user[cur'.conv]
                   => user_data'[user[c]] = user_data[user[c]]
       ELSE user_data' = user_data]_vars

----------------------------------------------------------------------------
(* Properties of the handler of text messages.                             *)

\* C20 as claimed: the handler of a text message sent by a conversation in
\* TypingSearch ends without an exception, having sent a message and
\* returned one of the five states
C20_Claim ==
    [][(pc = "idle" /\ cur'.kind = "message" /\ state[cur'.conv] = TYPING_SEARCH) =>
          /\ pc' = "idle"
          /\ ~raised'
          /\ out' # <<>>
          /\ ~IsNone(ret')
          /\ ret'.v \in States]_vars

=============================================================================
